---- MODULE Spec2Model ----
(***************************************************************************)
(* Hurricane-Explainer-Engine: the grid normalisation and channel encoding *)
(* pipeline of backend/app.py and scripts/preprocess_*.py, and the tile    *)
(* routes of backend/app.py.                                               *)
(*                                                                         *)
(* Numbers.  Longitudes and latitudes are whole degrees, so that numpy's   *)
(* float arithmetic on them is exact and is modelled by integer            *)
(* arithmetic; np.round is round-half-to-even.  Sequences are 1-based:     *)
(* lon[1] is Python's lon[0], lon[Len(lon)] is Python's lon[-1].           *)
(* A field is a sequence of rows, each a sequence of cells; in the         *)
(* normaliser a cell holds <<r, c>>, the row and column it had on input,   *)
(* so that the place every datum ends at can be read off the output.       *)
(***************************************************************************)
EXTENDS Integers, Sequences, FiniteSets, TLC

VARIABLES
    \* ---- normalise-and-encode pipeline (gph route / preprocess_gph main)
    lon,        \* longitude axis handed to the pipeline
    lat,        \* latitude axis handed to the pipeline
    elev_m,     \* the field handed to the pipeline
    normPc,     \* "start", "rewrapped", "flipped", "done", "error"
    lon_fixed,  \* axis returned by to_minus180_180
    elev_fixed, \* field after the rewrap, then after the latitude flip
    lat_work,   \* latitude axis after the orientation step
    tile,       \* what encode_terrain_rgb_png returned: image, bounds, nx, ny
    \* ---- one call of a channel encoder
    encOp,      \* "terrain", "scale", "uvz", "temp", "adaptive", "uv", "liqice",
                \* "lmh", "mask": the function called
    encArgs,    \* its arguments
    encPc,      \* "start", "checked", "done", "error"
    encScaled,  \* how many scale_fixed_range calls the encoder has made
    encOut,     \* the bytes it returned, <<>> before that
    \* ---- the tile routes of backend/app.py and the files they serve
    files,      \* path -> [exists, data]: the image files under data/
    sources,    \* the routes whose source dataset is on disk
    lsmGrid,    \* the latitude and longitude axes of data/lsm.grib, when it is there
    req,        \* request thread -> the request it handles and where it is
    \* ---- one datehour of a request path, parsed and turned into a tile key
    dhValue,    \* the <datehour> text of the URL, a sequence of characters
    dhPc,       \* "start", "parsed", "done"
    dhResult,   \* what parse_datehour returned, or ValueError
    dhStatus,   \* 400 when the route aborted, 0 otherwise
    dhTs,       \* ts = dt.strftime("%Y%m%d%H"), <<>> before that
    \* ---- the fields of one timestamp, rewrapped one after the other
    coLon,      \* the longitude axis they share
    coFields,   \* the fields read from the dataset
    coOut,      \* the <<axis, field>> pairs to_minus180_180 returned so far
    \* ---- one run of scripts/preprocess_gph.py over a dataset
    gphTimes,   \* times: the time axis of the dataset, in minutes
    gphLon,     \* lon: the longitude axis of the dataset
    gphFiles,   \* hour stamp -> [exists, data]: the files gph_<ts>.png
    gphIdx,     \* idx of the loop of main
    gphPc       \* "loop", "done", "crashed"

normVars == <<lon, lat, elev_m, normPc, lon_fixed, elev_fixed, lat_work, tile>>
encVars  == <<encOp, encArgs, encPc, encScaled, encOut>>

srvVars  == <<files, sources, lsmGrid, req>>

parseVars == <<dhValue, dhPc, dhResult, dhStatus, dhTs>>
coVars   == <<coLon, coFields, coOut>>
gphVars  == <<gphTimes, gphLon, gphFiles, gphIdx, gphPc>>
auxVars  == <<parseVars, coVars, gphVars>>

vars == <<normVars, encVars, srvVars, auxVars>>

----------------------------------------------------------------------------
\* Bounds of the model

MaxNx == 4
MaxNy == 3
\* cells of the array handed to scale_fixed_range
NumCells == 2
\* elevations tried on each side of a landmark, in hundredths of a metre
TerrainWindow == 25
\* requests the server receives in one run, each handled by its own thread
NumThreads == 2
\* pieces in which the bytes of one image reach the file
TileChunks == 2
\* hours of the period the dataset of preprocess_gph lies in
MaxTimes == 3

----------------------------------------------------------------------------
\* Arithmetic helpers

Abs(x) == IF x < 0 THEN -x ELSE x

\* floor(n / d) for d > 0
FloorDiv(n, d) == n \div d

\* np.round(n / d): round to nearest, ties to the even integer
RoundHalfEven(n, d) ==
    LET nn == IF d < 0 THEN -n ELSE n
        dd == Abs(d)
        f  == FloorDiv(nn, dd)
        r  == nn - f * dd
    IN  IF 2 * r < dd THEN f
        ELSE IF 2 * r > dd THEN f + 1
        ELSE IF f % 2 = 0 THEN f ELSE f + 1

SeqMin(s) == CHOOSE x \in {s[i] : i \in DOMAIN s} : \A j \in DOMAIN s : x <= s[j]
SeqMax(s) == CHOOSE x \in {s[i] : i \in DOMAIN s} : \A j \in DOMAIN s : x >= s[j]

Reverse(s) == [i \in 1..Len(s) |-> s[Len(s) + 1 - i]]

\* np.argsort(s): order[k] is the index of the k-th smallest element; equal
\* elements keep their input order (numpy's sort of a short array is an
\* insertion sort).
Argsort(s) ==
    LET rank(i) == Cardinality({j \in DOMAIN s :
                        s[j] < s[i] \/ (s[j] = s[i] /\ j < i)}) + 1
    IN  [k \in 1..Len(s) |-> CHOOSE i \in DOMAIN s : rank(i) = k]

\* np.roll(row, shift): element j of the result is element (j - shift) mod n
Roll(row, shift) ==
    [j \in 1..Len(row) |-> row[((j - 1 - shift) % Len(row)) + 1]]

\* ((x + 180.0) % 360.0) - 180.0
Wrap180(x) == ((x + 180) % 360) - 180

----------------------------------------------------------------------------
\* CoordinateNormalizer

NoResult == [err |-> TRUE, lon |-> <<>>, elev |-> <<>>]

\* to_minus180_180 without the early return of lines 195-196: every axis is
\* shifted, wrapped and sorted
to_minus180_180_NoEarlyReturn(lon_1d, elev) ==
    LET nx == Len(lon_1d) IN
    IF nx < 2 THEN NoResult
    ELSE
    LET dlon    == lon_1d[2] - lon_1d[1]
        shift   == RoundHalfEven(-180 - lon_1d[1], dlon) % nx
        rot     == [r \in 1..Len(elev) |-> Roll(elev[r], shift)]
        lon_rot == [j \in 1..nx |-> Wrap180(lon_1d[j] + shift * dlon)]
        order   == Argsort(lon_rot)
    IN  IF \E r \in 1..Len(elev) : Len(elev[r]) < nx
        THEN NoResult
        ELSE [err  |-> FALSE,
              lon  |-> [k \in 1..nx |-> lon_rot[order[k]]],
              elev |-> [r \in 1..Len(elev) |->
                            [k \in 1..nx |-> rot[r][order[k]]]]]

\* to_minus180_180(lon_1d, elev_m) of backend/app.py.  err is an IndexError:
\* lon[1] on an axis of one sample, or elev_rot[:, order] with an index the
\* field has no column for.  A field wider than the axis is cut to the axis
\* length by the fancy index, with no error.
to_minus180_180(lon_1d, elev) ==
    LET nx == Len(lon_1d) IN
    IF nx < 2 THEN NoResult
    ELSE
    LET dlon    == lon_1d[2] - lon_1d[1]
        shift   == RoundHalfEven(-180 - lon_1d[1], dlon) % nx
        rot     == [r \in 1..Len(elev) |-> Roll(elev[r], shift)]
        lon_rot == [j \in 1..nx |-> Wrap180(lon_1d[j] + shift * dlon)]
        order   == Argsort(lon_rot)
    IN  IF SeqMin(lon_1d) >= -180 /\ SeqMax(lon_1d) <= 180
        THEN [err |-> FALSE, lon |-> lon_1d, elev |-> elev]
        ELSE IF \E r \in 1..Len(elev) : Len(elev[r]) < nx
        THEN NoResult
        ELSE [err  |-> FALSE,
              lon  |-> [k \in 1..nx |-> lon_rot[order[k]]],
              elev |-> [r \in 1..Len(elev) |->
                            [k \in 1..nx |-> rot[r][order[k]]]]]

\* to_minus180_180 with the columns ordered by the values of the field's first
\* row instead of the rotated longitudes
to_minus180_180_ByValues(lon_1d, field) ==
    LET nx == Len(lon_1d) IN
    IF nx < 2 \/ (SeqMin(lon_1d) >= -180 /\ SeqMax(lon_1d) <= 180)
    THEN [err |-> FALSE, lon |-> lon_1d, elev |-> field]
    ELSE
    LET dlon    == lon_1d[2] - lon_1d[1]
        shift   == RoundHalfEven(-180 - lon_1d[1], dlon) % nx
        rot     == [r \in 1..Len(field) |-> Roll(field[r], shift)]
        lon_rot == [j \in 1..nx |-> Wrap180(lon_1d[j] + shift * dlon)]
        order   == Argsort([j \in 1..nx |-> rot[1][j].v])
    IN  [err  |-> FALSE,
         lon  |-> [k \in 1..nx |-> lon_rot[order[k]]],
         elev |-> [r \in 1..Len(field) |-> [k \in 1..nx |-> rot[r][order[k]]]]]

\* to_minus180_180(lon_1d, field_2d) of scripts/preprocess_uvz.py (the same in
\* preprocess_uv.py and preprocess_temperature.py): the copy that returns an
\* axis of fewer than two samples as it is
to_minus180_180_guarded(lon_1d, field_2d) ==
    IF Len(lon_1d) < 2
    THEN [err |-> FALSE, lon |-> lon_1d, elev |-> field_2d]
    ELSE to_minus180_180(lon_1d, field_2d)

\* lat_work[0] < lat_work[-1]
LatAscending(lat_1d) == lat_1d[1] < lat_1d[Len(lat_1d)]

\* FlipLat with the rows left as they were (the axis alone is reversed)
FlipLat_AxisOnly(lat_1d, field) ==
    IF LatAscending(lat_1d)
    THEN [lat |-> Reverse(lat_1d), elev |-> field]
    ELSE [lat |-> lat_1d, elev |-> field]

\* if lat_work[0] < lat_work[-1]: elev_fixed = elev_fixed[::-1, :];
\*                                lat_work = lat_work[::-1]
FlipLat(lat_1d, field) ==
    IF LatAscending(lat_1d)
    THEN [lat |-> Reverse(lat_1d), elev |-> Reverse(field)]
    ELSE [lat |-> lat_1d, elev |-> field]

\* Bounds taking the longitude axis for ascending and the latitude axis for
\* descending
Bounds_AssumeOrdered(lat_1d, lon_1d) ==
    <<lon_1d[1], lat_1d[Len(lat_1d)], lon_1d[Len(lon_1d)], lat_1d[1]>>

\* BoundsCalculator part of encode_terrain_rgb_png: bounds and size
Bounds(lat_1d, lon_1d) ==
    LET min_lon == IF lon_1d[1] <= lon_1d[Len(lon_1d)] THEN lon_1d[1] ELSE lon_1d[Len(lon_1d)]
        max_lon == IF lon_1d[Len(lon_1d)] >= lon_1d[1] THEN lon_1d[Len(lon_1d)] ELSE lon_1d[1]
        min_lat == IF lat_1d[1] <= lat_1d[Len(lat_1d)] THEN lat_1d[1] ELSE lat_1d[Len(lat_1d)]
        max_lat == IF lat_1d[Len(lat_1d)] >= lat_1d[1] THEN lat_1d[Len(lat_1d)] ELSE lat_1d[1]
    IN  <<min_lon, min_lat, max_lon, max_lat>>

\* encode_terrain_rgb_png(elev_m, lat, lon) as the pipeline sees it: one pixel
\* per cell of the field (the pixel of a cell is modelled by the cell), the
\* bounds of the axes, and ny, nx = elev_m.shape.  Nothing compares the shape
\* with the axes.
TerrainTile(field, lat_1d, lon_1d) ==
    [png    |-> field,
     bounds |-> Bounds(lat_1d, lon_1d),
     nx     |-> Len(field[1]),
     ny     |-> Len(field)]

----------------------------------------------------------------------------
\* Inputs of the pipeline

LonStarts == {-180, -90, 0, 90, 170, 270}
LonSteps  == {-90, 10, 90, 120, 180}
LatStarts == {-90, 90}
LatSteps  == {-45, 45}

Axis(start, step, n) == [i \in 1..n |-> start + (i - 1) * step]

LonAxes == {Axis(s, d, n) : s \in LonStarts, d \in LonSteps, n \in 1..MaxNx}
LatAxes == {Axis(s, d, n) : s \in LatStarts, d \in LatSteps, n \in 1..MaxNy}

Field(ny, nx) == [r \in 1..ny |-> [c \in 1..nx |-> <<r, c>>]]

Fields == {Field(ny, nx) : ny \in 1..MaxNy, nx \in 1..MaxNx}

\* global grids lon[i] = i*D with nx*D = 360, like np.arange(0, 360, 0.25)
GridSizes == {2, 4, 6, 8}

StandardGrids == {Axis(0, 360 \div n, n) : n \in GridSizes}

GridFields == {Field(ny, n) : ny \in 1..MaxNy, n \in GridSizes}

NormIdle ==
    /\ lon = <<>>
    /\ lat = <<>>
    /\ elev_m = <<>>
    /\ normPc = "idle"
    /\ lon_fixed = <<>>
    /\ elev_fixed = <<>>
    /\ lat_work = <<>>
    /\ tile = <<>>

EncIdle ==
    /\ encOp = "idle"
    /\ encArgs = <<>>
    /\ encPc = "idle"
    /\ encScaled = 0
    /\ encOut = <<>>

SrvIdle ==
    /\ files = <<>>
    /\ sources = {}
    /\ lsmGrid = <<>>
    /\ req = <<>>

ParseIdle ==
    /\ dhValue = <<>>
    /\ dhPc = "idle"
    /\ dhResult = <<>>
    /\ dhStatus = 0
    /\ dhTs = <<>>

ColocIdle ==
    /\ coLon = <<>>
    /\ coFields = <<>>
    /\ coOut = <<>>

GphIdle ==
    /\ gphTimes = <<>>
    /\ gphLon = <<>>
    /\ gphFiles = <<>>
    /\ gphIdx = 0
    /\ gphPc = "idle"

NormInit ==
    /\ EncIdle
    /\ SrvIdle
    /\ ParseIdle
    /\ ColocIdle
    /\ GphIdle
    /\ lon \in LonAxes \cup StandardGrids
    /\ lat \in LatAxes
    /\ elev_m \in Fields \cup GridFields
    /\ normPc = "start"
    /\ lon_fixed = <<>>
    /\ elev_fixed = <<>>
    /\ lat_work = <<>>
    /\ tile = <<>>

\* lon_fixed, elev_fixed = to_minus180_180(lon, elev_m)
Rewrap ==
    /\ normPc = "start"
    /\ LET res == to_minus180_180(lon, elev_m) IN
         IF res.err
         THEN /\ normPc' = "error"
              /\ UNCHANGED <<lon_fixed, elev_fixed>>
         ELSE /\ normPc' = "rewrapped"
              /\ lon_fixed' = res.lon
              /\ elev_fixed' = res.elev
    /\ UNCHANGED <<lon, lat, elev_m, lat_work, tile, encVars, srvVars, auxVars>>

\* lat_work = lat.copy(); flip when ascending
Orient ==
    /\ normPc = "rewrapped"
    /\ LET res == FlipLat(lat, elev_fixed) IN
         /\ lat_work' = res.lat
         /\ elev_fixed' = res.elev
    /\ normPc' = "flipped"
    /\ UNCHANGED <<lon, lat, elev_m, lon_fixed, tile, encVars, srvVars, auxVars>>

\* png, bounds, nx, ny = encode_terrain_rgb_png(elev_fixed, lat_work, lon_fixed)
Encode ==
    /\ normPc = "flipped"
    /\ tile' = TerrainTile(elev_fixed, lat_work, lon_fixed)
    /\ normPc' = "done"
    /\ UNCHANGED <<lon, lat, elev_m, lon_fixed, elev_fixed, lat_work, encVars, srvVars, auxVars>>

NormNext == Rewrap \/ Orient \/ Encode

SpecNorm == NormInit /\ [][NormNext]_vars

----------------------------------------------------------------------------
\* The fields of one timestamp (U, V and W of preprocess_uvz main) rewrapped
\* with the axis they share.  A field has one row; a cell is [v, c], its value
\* and the column it had on input.

CoNames == <<"u", "v", "w">>

\* the value patterns of a row of nx cells: flat, rising, falling, alternating
RowPatterns(nx) ==
    {[c \in 1..nx |-> 0], [c \in 1..nx |-> c], [c \in 1..nx |-> nx - c],
     [c \in 1..nx |-> c % 2]}

CoField(row) == <<[c \in DOMAIN row |-> [v |-> row[c], c |-> c]]>>

ColocInit ==
    /\ NormIdle
    /\ EncIdle
    /\ SrvIdle
    /\ ParseIdle
    /\ GphIdle
    /\ coLon \in LonAxes
    /\ coFields \in [1..Len(CoNames) -> {CoField(row) : row \in RowPatterns(Len(coLon))}]
    /\ coOut = <<>>

\* lon_x, x_fixed = to_minus180_180(lon, x2d) for the k-th field
RewrapField(k) ==
    /\ Len(coOut) = k - 1
    /\ coOut' = Append(coOut, to_minus180_180_guarded(coLon, coFields[k]))
    /\ UNCHANGED <<coLon, coFields, parseVars, gphVars, normVars, encVars, srvVars>>

\* preprocess_uvz main, lines 184, 185, 186
RewrapU == RewrapField(1)
RewrapV == RewrapField(2)
RewrapW == RewrapField(3)

ColocNext == RewrapU \/ RewrapV \/ RewrapW

SpecColoc == ColocInit /\ [][ColocNext]_vars

----------------------------------------------------------------------------
\* The batch of scripts/preprocess_gph.py
\*
\* main walks the time axis of the dataset and writes gph_<ts>.png for every
\* time whose file is not there yet.  A time is a number of minutes, its
\* stamp ts the hour it lies in; a file is [exists, data], and the image
\* rendered from the slice of time t is <<"png", t>>.

\* the times a dataset may hold: on the hour and half past, in the period
GphInstants == {h * 60 + m : h \in 1..MaxTimes, m \in {0, 30}}

\* the members of a set of times in ascending order
Ascending(S) ==
    CHOOSE q \in [1..Cardinality(S) -> S] :
        \A i, j \in 1..Cardinality(S) : i < j => q[i] < q[j]

\* time axes of a dataset: ascending, at least one sample
GphTimeAxes == {Ascending(S) : S \in SUBSET GphInstants \ {{}}}

\* longitude axes of a dataset
GphLonAxes == {Axis(0, 90, 4), Axis(0, 90, 1)}

\* ts = np.datetime_as_string(t, unit="h") without "-", ":" and "T": the hour
GphStamp(t) == t \div 60

\* a file name before the run: no file, or what an earlier run left there
GphFileStates ==
    {[exists |-> FALSE, data |-> <<>>]}
        \cup {[exists |-> TRUE, data |-> <<d>>] : d \in {"stale", "incomplete"}}

\* os.path.exists(png_path) answering no for every file
GphExists_Never(ts) == FALSE

\* os.path.exists(png_path)
GphExists(ts) == gphFiles[ts].exists

\* lines 128-137: the slice of time t through to_minus180_180, the latitude
\* flip and encode_terrain_rgb_png
GphRender(t) ==
    LET elev_m_t == Field(2, Len(gphLon))
        res      == to_minus180_180(gphLon, elev_m_t)
    IN  IF res.err THEN [err |-> TRUE, data |-> <<>>]
        ELSE [err |-> FALSE, data |-> <<"png", t>>]

GphInit ==
    /\ NormIdle
    /\ EncIdle
    /\ SrvIdle
    /\ ParseIdle
    /\ ColocIdle
    /\ gphTimes \in GphTimeAxes
    /\ gphLon \in GphLonAxes
    /\ gphFiles \in [1..MaxTimes -> GphFileStates]
    /\ gphIdx = 1
    /\ gphPc = "loop"

\* lines 123-126: the file is there, continue
GphSkip ==
    /\ gphPc = "loop"
    /\ gphIdx <= Len(gphTimes)
    /\ GphExists(GphStamp(gphTimes[gphIdx]))
    /\ gphIdx' = gphIdx + 1
    /\ UNCHANGED <<gphTimes, gphLon, gphFiles, gphPc, parseVars, coVars,
                   normVars, encVars, srvVars>>

\* lines 128-139: render the slice and write the file
GphWrite ==
    /\ gphPc = "loop"
    /\ gphIdx <= Len(gphTimes)
    /\ ~GphExists(GphStamp(gphTimes[gphIdx]))
    /\ LET t   == gphTimes[gphIdx]
           res == GphRender(t)
       IN  /\ ~res.err
           /\ gphFiles' = [gphFiles EXCEPT ![GphStamp(t)] =
                               [exists |-> TRUE, data |-> res.data]]
    /\ gphIdx' = gphIdx + 1
    /\ UNCHANGED <<gphTimes, gphLon, gphPc, parseVars, coVars,
                   normVars, encVars, srvVars>>

\* lines 128-137 raising: main ends with the exception
GphRaise ==
    /\ gphPc = "loop"
    /\ gphIdx <= Len(gphTimes)
    /\ ~GphExists(GphStamp(gphTimes[gphIdx]))
    /\ GphRender(gphTimes[gphIdx]).err
    /\ gphPc' = "crashed"
    /\ UNCHANGED <<gphTimes, gphLon, gphFiles, gphIdx, parseVars, coVars,
                   normVars, encVars, srvVars>>

\* the loop of line 119 is through: main returns
GphFinish ==
    /\ gphPc = "loop"
    /\ gphIdx > Len(gphTimes)
    /\ gphPc' = "done"
    /\ UNCHANGED <<gphTimes, gphLon, gphFiles, gphIdx, parseVars, coVars,
                   normVars, encVars, srvVars>>

GphNext == GphSkip \/ GphWrite \/ GphRaise \/ GphFinish

SpecGph == GphInit /\ [][GphNext]_vars

----------------------------------------------------------------------------
\* ChannelEncoder
\*
\* A cell of a physical field is a finite number or one of NaN, +inf, -inf.
\* Finite values are integers in the unit of the field, and the scaling
\* arithmetic on them is exact (float32 rounding is not modelled).

Fin(n) == [fin |-> TRUE, v |-> n]
NaN    == [fin |-> FALSE, v |-> 0]
PosInf == [fin |-> FALSE, v |-> 1]
NegInf == [fin |-> FALSE, v |-> -1]

\* np.isfinite
IsFinite(x) == x.fin

\* Terrain-RGB bytes of one elevation, given in hundredths of a metre:
\*   scaled = np.round((elev_m + 10000.0) / 0.1).astype(np.uint32)
\*   r, g, b = (scaled >> 16) & 255, (scaled >> 8) & 255, scaled & 255; a = 255
\* with the quantisation truncated instead of rounded
terrain_rgb_Truncating(elev_cm) ==
    LET scaled == FloorDiv(elev_cm + 1000000, 10)
    IN  <<(scaled \div 65536) % 256, (scaled \div 256) % 256, scaled % 256, 255>>

\* terrain_rgb with the quantised value clamped to 24 bits instead of masked
terrain_rgb_Clamping(elev_cm) ==
    LET q == RoundHalfEven(elev_cm + 1000000, 10)
        scaled == IF q > 16777215 THEN 16777215 ELSE q
    IN  <<(scaled \div 65536) % 256, (scaled \div 256) % 256, scaled % 256, 255>>

terrain_rgb(elev_cm) ==
    LET scaled == RoundHalfEven(elev_cm + 1000000, 10)
    IN  <<(scaled \div 65536) % 256, (scaled \div 256) % 256, scaled % 256, 255>>

\* One cell of lines 70-72 of scale_fixed_range, for vmax > vmin:
\*   scaled = (a - vmin) / (vmax - vmin)
\*   scaled = np.clip(scaled * 255.0, 0.0, 255.0)
\*   out = scaled.astype(np.uint8)          (the cast drops the fraction)
\* The cast of NaN is whatever the platform gives; line 73 overwrites it.
ScaledByte(x, vmin, vmax) ==
    IF x = NaN THEN 0
    ELSE IF x = PosInf THEN 255
    ELSE IF x = NegInf THEN 0
    ELSE LET num == (x.v - vmin) * 255
             den == vmax - vmin
         IN  IF num <= 0 THEN 0
             ELSE IF num >= 255 * den THEN 255
             ELSE FloorDiv(num, den)

\* scale_fixed_range without its last line, out[~np.isfinite(a)] = 0
scale_fixed_range_NoReset(a, vmin, vmax) ==
    IF ~IsFinite(vmin) \/ ~IsFinite(vmax) \/ vmax.v <= vmin.v
    THEN [i \in DOMAIN a |-> 0]
    ELSE [i \in DOMAIN a |-> ScaledByte(a[i], vmin.v, vmax.v)]

\* scale_fixed_range with the guard of line 68 testing vmax < vmin: an empty
\* range vmax = vmin goes on to the division
scale_fixed_range_StrictGuard(a, vmin, vmax) ==
    IF ~IsFinite(vmin) \/ ~IsFinite(vmax) \/ vmax.v < vmin.v
    THEN [i \in DOMAIN a |-> 0]
    ELSE [i \in DOMAIN a |->
            IF IsFinite(a[i]) THEN ScaledByte(a[i], vmin.v, vmax.v) ELSE 0]

\* scale_fixed_range(a, vmin, vmax)
scale_fixed_range(a, vmin, vmax) ==
    IF ~IsFinite(vmin) \/ ~IsFinite(vmax) \/ vmax.v <= vmin.v
    THEN [i \in DOMAIN a |-> 0]
    ELSE [i \in DOMAIN a |->
            IF IsFinite(a[i]) THEN ScaledByte(a[i], vmin.v, vmax.v) ELSE 0]

\* UV_RANGES_MPS with the 250 hPa entry lost
UV_RANGES_MPS_No250 ==
    (850 :> <<-60, 60>>) @@ (500 :> <<-80, 80>>)

\* UV_RANGES_MPS, Z_RANGE_MPS of preprocess_uvz.py
UV_RANGES_MPS ==
    (850 :> <<-60, 60>>) @@ (500 :> <<-80, 80>>) @@ (250 :> <<-120, 120>>)

Z_RANGE_MPS == <<-5, 5>>

\* TEMP_RANGES_C of preprocess_temperature.py
TEMP_RANGES_C ==
    (850 :> <<-40, 35>>) @@ (500 :> <<-70, 0>>) @@ (250 :> <<-80, -25>>)

\* scale_to_255 with the constant slice all 127, line 80 (out[~mask] = 0) left
\* out
scale_to_255_ConstNoReset(a) ==
    LET finite == {i \in DOMAIN a : IsFinite(a[i])} IN
    IF finite = {} THEN [i \in DOMAIN a |-> 0]
    ELSE LET vmin == CHOOSE x \in {a[i].v : i \in finite} : \A j \in finite : x <= a[j].v
             vmax == CHOOSE x \in {a[i].v : i \in finite} : \A j \in finite : x >= a[j].v
         IN  IF vmax <= vmin
             THEN [i \in DOMAIN a |-> 127]
             ELSE [i \in DOMAIN a |->
                     IF i \in finite THEN ScaledByte(a[i], vmin, vmax) ELSE 0]

\* scale_to_255 with line 85 (out[~mask] = 0 after the scaling) left out
scale_to_255_NoReset(a) ==
    LET finite == {i \in DOMAIN a : IsFinite(a[i])} IN
    IF finite = {} THEN [i \in DOMAIN a |-> 0]
    ELSE LET vmin == CHOOSE x \in {a[i].v : i \in finite} : \A j \in finite : x <= a[j].v
             vmax == CHOOSE x \in {a[i].v : i \in finite} : \A j \in finite : x >= a[j].v
         IN  IF vmax <= vmin
             THEN [i \in DOMAIN a |-> IF i \in finite THEN 127 ELSE 0]
             ELSE [i \in DOMAIN a |-> ScaledByte(a[i], vmin, vmax)]

\* scale_to_255(a) of preprocess_uv.py: the range is the slice's own finite
\* minimum and maximum
scale_to_255(a) ==
    LET finite == {i \in DOMAIN a : IsFinite(a[i])} IN
    IF finite = {} THEN [i \in DOMAIN a |-> 0]
    ELSE LET vmin == CHOOSE x \in {a[i].v : i \in finite} : \A j \in finite : x <= a[j].v
             vmax == CHOOSE x \in {a[i].v : i \in finite} : \A j \in finite : x >= a[j].v
         IN  IF vmax <= vmin
             THEN [i \in DOMAIN a |-> IF i \in finite THEN 127 ELSE 0]
             ELSE [i \in DOMAIN a |->
                     IF i \in finite THEN ScaledByte(a[i], vmin, vmax) ELSE 0]

\* encode_uv_rg_png with the green channel scaled from u
encode_uv_rg_png_GreenFromU(u, v) ==
    LET r == scale_to_255(u)
        g == scale_to_255(u)
    IN  [i \in DOMAIN r |-> <<r[i], g[i], 0, 255>>]

\* encode_uv_rg_png(u, v): the pixels, U in red, V in green, B = 0, A = 255
encode_uv_rg_png(u, v) ==
    LET r == scale_to_255(u)
        g == scale_to_255(v)
    IN  [i \in DOMAIN r |-> <<r[i], g[i], 0, 255>>]

\* to_u8(x, scale_max) of cloudLiquidWater.py (preprocess_cloud_cover.py has
\* scale_max = 1), after np.nan_to_num(x, nan=0.0), which also turns +inf and
\* -inf into the largest and smallest float:
\*   np.rint(np.clip(x / scale_max, 0.0, 1.0) * 255.0).astype(np.uint8)
\* x and scale_max are in hundredths.
to_u8(x, scale_max) ==
    IF x = NaN THEN 0
    ELSE IF x = PosInf THEN 255
    ELSE IF x = NegInf THEN 0
    ELSE IF x.v <= 0 THEN 0
    ELSE IF x.v >= scale_max THEN 255
    ELSE RoundHalfEven(x.v * 255, scale_max)

\* the scale_max of liquid (1.0), ice (0.3) and a cloud fraction (1.0)
LiquidMax == 100
IceMax    == 30
CloudMax  == 100

\* encode_liq_ice_png(tclw2d, tciw2d): R = liquid, G = ice, B = 0, A = 255
encode_liq_ice_png(tclw, tciw) ==
    <<to_u8(tclw, LiquidMax), to_u8(tciw, IceMax), 0, 255>>

\* encode_lmh_rgb_png(lcc2d, mcc2d, hcc2d): R = low, G = medium, B = high
encode_lmh_rgb_png(lcc, mcc, hcc) ==
    <<to_u8(lcc, CloudMax), to_u8(mcc, CloudMax), to_u8(hcc, CloudMax), 255>>

\* Land mask, values of the land-sea mask in tenths.
\* mask_land = lsm_vals > 0.5 with the comparison made >=
IsLand_AtLeastHalf(x) == (IsFinite(x) /\ x.v >= 5) \/ x = PosInf

\* mask_land = lsm_vals > 0.5 (a comparison with NaN is False)
IsLand(x) == (IsFinite(x) /\ x.v > 5) \/ x = PosInf

\* mask_land.astype(np.float32): True is 1.0, False is 0.0
MaskAsFloat(b) == IF b THEN Fin(10) ELSE Fin(0)

\* mask_fixed_bool = mask_fixed >= 0.5
ReThreshold(f) == f.v >= 5

\* encode_landmask_png: sea = (~mask_land) * 255; the pixel is sea, sea, sea, 255
landmask_rgba(mask_land) ==
    LET sea == IF mask_land THEN 0 ELSE 255 IN <<sea, sea, sea, 255>>

\* Inputs of the encoders

\* the lowest elevation, sea level, a summit, the last elevation of 24 bits
\* and the elevation whose quantised value is 2 * 2^24
TerrainLandmarks == {-1000000, 0, 884800, 166772150, 334544320}

TerrainSamples ==
    {c \in UNION {(m - TerrainWindow)..(m + TerrainWindow) : m \in TerrainLandmarks} :
        c >= -1000000}

CellNumbers ==
    {-130, -120, -100, -81, -80, -79, -60, -40, -5, -1, 0, 1, 5, 35, 60, 79, 80,
     81, 120, 130}

Cells == {Fin(n) : n \in CellNumbers} \cup {NaN, PosInf, NegInf}

ScaleRanges ==
    {<<-60, 60>>, <<-80, 80>>, <<-120, 120>>, <<-5, 5>>, <<-40, 35>>, <<-70, 0>>,
     <<-80, -25>>, <<5, 5>>, <<60, -60>>}

PressureLevels == {250, 500, 700, 850, 1000}

WindCells == {Fin(-130), Fin(-80), Fin(0), Fin(1), Fin(120), NaN, PosInf}

\* cells of the wind slices handed to encode_uv_rg_png
SliceCells == {Fin(-80), Fin(0), Fin(120), NaN, PosInf}

\* cells of the longer slices handed to scale_to_255
AdaptiveCells ==
    {Fin(n) : n \in {-80, -1, 0, 1, 5, 120}} \cup {NaN, PosInf, NegInf}

\* water contents and cloud fractions, in hundredths
FractionCells ==
    {Fin(n) : n \in {-10, 0, 1, 15, 30, 50, 100, 150}} \cup {NaN, PosInf, NegInf}

\* values of the land-sea mask, in tenths
LsmCells == {Fin(n) : n \in {-1, 0, 4, 5, 6, 10, 11}} \cup {NaN, PosInf, NegInf}

EncInit ==
    /\ NormIdle
    /\ SrvIdle
    /\ ParseIdle
    /\ ColocIdle
    /\ GphIdle
    /\ encPc = "start"
    /\ encScaled = 0
    /\ encOut = <<>>
    /\ \/ /\ encOp = "terrain"
          /\ encArgs \in [elev_cm : TerrainSamples]
       \/ /\ encOp = "scale"
          /\ encArgs \in [a : [1..NumCells -> Cells],
                          vmin : {Fin(r[1]) : r \in ScaleRanges} \cup {NaN},
                          vmax : {Fin(r[2]) : r \in ScaleRanges} \cup {PosInf}]
          /\ \/ <<encArgs.vmin.v, encArgs.vmax.v>> \in ScaleRanges
             \/ ~IsFinite(encArgs.vmin)
             \/ ~IsFinite(encArgs.vmax)
       \/ /\ encOp = "uvz"
          /\ encArgs \in [u : WindCells, v : WindCells, z : {Fin(-5), Fin(0), Fin(1), NaN},
                          pressure_level : PressureLevels]
       \/ /\ encOp = "temp"
          /\ encArgs \in [temp_c : Cells, pressure_level : PressureLevels]
       \/ /\ encOp = "adaptive"
          /\ encArgs \in [a : [1..NumCells -> Cells]
                                \cup [1..(NumCells + 1) -> AdaptiveCells]]
       \/ /\ encOp = "uv"
          /\ encArgs \in [u : [1..NumCells -> SliceCells], v : [1..NumCells -> SliceCells]]
       \/ /\ encOp = "liqice"
          /\ encArgs \in [tclw : FractionCells, tciw : FractionCells]
       \/ /\ encOp = "lmh"
          /\ encArgs \in [lcc : FractionCells, mcc : FractionCells, hcc : FractionCells]
       \/ /\ encOp = "mask"
          /\ encArgs \in [lsm : LsmCells]

\* the pixel encode_terrain_rgb_png makes of one elevation
EncodeTerrain ==
    /\ encOp = "terrain"
    /\ encPc = "start"
    /\ encOut' = terrain_rgb(encArgs.elev_cm)
    /\ encPc' = "done"
    /\ UNCHANGED <<encOp, encArgs, encScaled, normVars, srvVars, auxVars>>

\* a call of scale_fixed_range
ScaleFixedRange ==
    /\ encOp = "scale"
    /\ encPc = "start"
    /\ encOut' = scale_fixed_range(encArgs.a, encArgs.vmin, encArgs.vmax)
    /\ encScaled' = 1
    /\ encPc' = "done"
    /\ UNCHANGED <<encOp, encArgs, normVars, srvVars, auxVars>>

\* encode_uvz_rgb_png, lines 88-89: the level must be registered
UvzCheck ==
    /\ encOp = "uvz"
    /\ encPc = "start"
    /\ encPc' = IF encArgs.pressure_level \in DOMAIN UV_RANGES_MPS
                THEN "checked" ELSE "error"
    /\ UNCHANGED <<encOp, encArgs, encScaled, encOut, normVars, srvVars, auxVars>>

\* encode_uvz_rgb_png, lines 91-100: U -> R, V -> G, Z -> B, A = 255
UvzScale ==
    /\ encOp = "uvz"
    /\ encPc = "checked"
    /\ LET uv == UV_RANGES_MPS[encArgs.pressure_level]
           r  == scale_fixed_range(<<encArgs.u>>, Fin(uv[1]), Fin(uv[2]))
           g  == scale_fixed_range(<<encArgs.v>>, Fin(uv[1]), Fin(uv[2]))
           b  == scale_fixed_range(<<encArgs.z>>, Fin(Z_RANGE_MPS[1]), Fin(Z_RANGE_MPS[2]))
       IN  encOut' = <<r[1], g[1], b[1], 255>>
    /\ encScaled' = 3
    /\ encPc' = "done"
    /\ UNCHANGED <<encOp, encArgs, normVars, srvVars, auxVars>>

\* encode_temp_r_png, lines 87-88
TempCheck ==
    /\ encOp = "temp"
    /\ encPc = "start"
    /\ encPc' = IF encArgs.pressure_level \in DOMAIN TEMP_RANGES_C
                THEN "checked" ELSE "error"
    /\ UNCHANGED <<encOp, encArgs, encScaled, encOut, normVars, srvVars, auxVars>>

\* encode_temp_r_png, lines 90-96: temperature -> R, G = B = 0, A = 255
TempScale ==
    /\ encOp = "temp"
    /\ encPc = "checked"
    /\ LET t == TEMP_RANGES_C[encArgs.pressure_level]
           r == scale_fixed_range(<<encArgs.temp_c>>, Fin(t[1]), Fin(t[2]))
       IN  encOut' = <<r[1], 0, 0, 255>>
    /\ encScaled' = 1
    /\ encPc' = "done"
    /\ UNCHANGED <<encOp, encArgs, normVars, srvVars, auxVars>>

\* a call of scale_to_255
ScaleTo255 ==
    /\ encOp = "adaptive"
    /\ encPc = "start"
    /\ encOut' = scale_to_255(encArgs.a)
    /\ encPc' = "done"
    /\ UNCHANGED <<encOp, encArgs, encScaled, normVars, srvVars, auxVars>>

\* a call of encode_uv_rg_png
EncodeUv ==
    /\ encOp = "uv"
    /\ encPc = "start"
    /\ encOut' = encode_uv_rg_png(encArgs.u, encArgs.v)
    /\ encPc' = "done"
    /\ UNCHANGED <<encOp, encArgs, encScaled, normVars, srvVars, auxVars>>

\* the pixel encode_liq_ice_png makes of one cell of liquid and ice
EncodeLiqIce ==
    /\ encOp = "liqice"
    /\ encPc = "start"
    /\ encOut' = encode_liq_ice_png(encArgs.tclw, encArgs.tciw)
    /\ encPc' = "done"
    /\ UNCHANGED <<encOp, encArgs, encScaled, normVars, srvVars, auxVars>>

\* the pixel encode_lmh_rgb_png makes of one cell of low, medium, high cloud
EncodeLmh ==
    /\ encOp = "lmh"
    /\ encPc = "start"
    /\ encOut' = encode_lmh_rgb_png(encArgs.lcc, encArgs.mcc, encArgs.hcc)
    /\ encPc' = "done"
    /\ UNCHANGED <<encOp, encArgs, encScaled, normVars, srvVars, auxVars>>

\* land_mask lines 424-436 for one cell: threshold, cast to float32 for the
\* rewrap and the flip (which move the cell and keep its value), threshold
\* again, encode_landmask_png
EncodeLandMask ==
    /\ encOp = "mask"
    /\ encPc = "start"
    /\ LET mask_land       == IsLand(encArgs.lsm)
           mask_fixed      == MaskAsFloat(mask_land)
           mask_fixed_bool == ReThreshold(mask_fixed)
       IN  encOut' = landmask_rgba(mask_fixed_bool)
    /\ encPc' = "done"
    /\ UNCHANGED <<encOp, encArgs, encScaled, normVars, srvVars, auxVars>>

EncNext ==
    \/ EncodeTerrain \/ ScaleFixedRange \/ UvzCheck \/ UvzScale \/ TempCheck \/ TempScale
    \/ ScaleTo255 \/ EncodeUv \/ EncodeLiqIce \/ EncodeLmh \/ EncodeLandMask

SpecEnc == EncInit /\ [][EncNext]_vars

----------------------------------------------------------------------------
\* TimestampParser: parse_datehour and the key the routes make of its result
\*
\* A text is a sequence of one-character strings.  A datetime is a record of
\* Y, m, d, H, M.  datetime.strptime is modelled by what it does with the four
\* directives the formats use: %Y is four digits, %m, %d, %H and %M are one
\* or two digits in the ranges of the library's patterns (1[0-2]|0[1-9]|[1-9]
\* for %m, 3[01]|[12]\d|0[1-9]|[1-9]| [1-9] for %d, 2[0-3]|[0-1]\d|\d for %H,
\* [0-5]\d|\d for %M), a letter of the format matches either case, a space of
\* the format matches a run of spaces, text left over is an error, and so is
\* a day the month does not have.

\* most 'Z' characters a datehour of the input set ends with
MaxZ == 2

DigitChars == <<"0", "1", "2", "3", "4", "5", "6", "7", "8", "9">>

IsDigit(c) == \E i \in 1..10 : DigitChars[i] = c

DigitVal(c) == (CHOOSE i \in 1..10 : DigitChars[i] = c) - 1

Whitespace == {" "}

\* re.IGNORECASE on the letters a format holds
Upper(c) == IF c = "t" THEN "T" ELSE c

\* str.strip()
Strip(s) ==
    LET keep == {i \in DOMAIN s : s[i] \notin Whitespace}
    IN  IF keep = {} THEN <<>>
        ELSE SubSeq(s, CHOOSE i \in keep : \A j \in keep : i <= j,
                       CHOOSE i \in keep : \A j \in keep : i >= j)

\* str.rstrip("Z"): every trailing 'Z' goes
RStripZ(s) ==
    LET keep == {i \in DOMAIN s : s[i] # "Z"}
    IN  IF keep = {} THEN <<>>
        ELSE SubSeq(s, 1, CHOOSE i \in keep : \A j \in keep : i >= j)

\* str.isdigit()
IsDigitString(s) == s # <<>> /\ \A i \in DOMAIN s : IsDigit(s[i])

DigitsAt(s, pos, len) ==
    pos + len - 1 <= Len(s) /\ \A i \in pos..(pos + len - 1) : IsDigit(s[i])

RECURSIVE ValAt(_, _, _)
ValAt(s, pos, len) ==
    IF len = 0 THEN 0 ELSE ValAt(s, pos, len - 1) * 10 + DigitVal(s[pos + len - 1])

ValueError == "ValueError"

Directives == {"%Y", "%m", "%d", "%H", "%M"}

\* the fields of a datetime no directive has set: datetime(1900, 1, 1, 0, 0)
NoFields == [f \in Directives |->
                IF f = "%Y" THEN 1900 ELSE IF f \in {"%m", "%d"} THEN 1 ELSE 0]

DateError == [err |-> TRUE, dt |-> NoFields]

\* does the text at pos, len characters long, fit the directive's pattern
FieldFits(tok, s, pos, len) ==
    LET val == ValAt(s, pos, len) IN
    CASE tok = "%Y" -> len = 4 /\ DigitsAt(s, pos, 4)
      [] tok = "%m" -> DigitsAt(s, pos, len) /\ val >= 1 /\ val <= (IF len = 2 THEN 12 ELSE 9)
      [] tok = "%d" -> \/ DigitsAt(s, pos, len) /\ val >= 1
                                            /\ val <= (IF len = 2 THEN 31 ELSE 9)
                       \/ /\ len = 2
                          /\ pos + 1 <= Len(s)
                          /\ s[pos] = " "
                          /\ IsDigit(s[pos + 1])
                          /\ DigitVal(s[pos + 1]) >= 1
      [] tok = "%H" -> DigitsAt(s, pos, len) /\ (len = 2 => val <= 23)
      [] tok = "%M" -> DigitsAt(s, pos, len) /\ (len = 2 => val <= 59)

FieldLens(tok) == IF tok = "%Y" THEN {4} ELSE {1, 2}

FieldVal(s, pos, len) ==
    IF s[pos] = " " THEN DigitVal(s[pos + 1]) ELSE ValAt(s, pos, len)

\* the ways the format, from token k on, matches the text from pos to its end
RECURSIVE Match(_, _, _, _)
Match(fmt, k, s, pos) ==
    IF k > Len(fmt)
    THEN IF pos = Len(s) + 1 THEN {NoFields} ELSE {}
    ELSE LET tok == fmt[k] IN
         IF tok \in Directives
         THEN UNION {{[b EXCEPT ![tok] = FieldVal(s, pos, len)] :
                          b \in Match(fmt, k + 1, s, pos + len)} :
                     len \in {n \in FieldLens(tok) :
                                 pos + n - 1 <= Len(s) /\ FieldFits(tok, s, pos, n)}}
         ELSE IF tok = " "
         THEN UNION {Match(fmt, k + 1, s, pos + n) :
                     n \in {m \in 1..(Len(s) - pos + 1) :
                               \A i \in pos..(pos + m - 1) : s[i] \in Whitespace}}
         ELSE IF pos <= Len(s) /\ Upper(s[pos]) = tok
         THEN Match(fmt, k + 1, s, pos + 1)
         ELSE {}

IsLeap(y) == y % 4 = 0 /\ (y % 100 # 0 \/ y % 400 = 0)

DaysInMonth(y, m) ==
    IF m = 2 THEN (IF IsLeap(y) THEN 29 ELSE 28)
    ELSE IF m \in {4, 6, 9, 11} THEN 30 ELSE 31

\* datetime.strptime(s, fmt)
strptime(s, fmt) ==
    LET found == Match(fmt, 1, s, 1) IN
    IF found = {} THEN DateError
    ELSE LET dt == CHOOSE b \in found : TRUE IN
         IF dt["%Y"] < 1 \/ dt["%d"] > DaysInMonth(dt["%Y"], dt["%m"])
         THEN DateError
         ELSE [err |-> FALSE, dt |-> dt]

FmtDigits10 == <<"%Y", "%m", "%d", "%H">>
FmtDigits12 == <<"%Y", "%m", "%d", "%H", "%M">>
FmtIsoT     == <<"%Y", "-", "%m", "-", "%d", "T", "%H">>
FmtIsoSpace == <<"%Y", "-", "%m", "-", "%d", " ", "%H">>
FmtIsoTMin     == <<"%Y", "-", "%m", "-", "%d", "T", "%H", ":", "%M">>
FmtIsoSpaceMin == <<"%Y", "-", "%m", "-", "%d", " ", "%H", ":", "%M">>

\* the first of the formats that parses the text
RECURSIVE TryFormats(_, _, _)
TryFormats(s, fmts, k) ==
    IF k > Len(fmts) THEN DateError
    ELSE LET res == strptime(s, fmts[k]) IN
         IF res.err THEN TryFormats(s, fmts, k + 1) ELSE res

\* parse_datehour(value)
parse_datehour(value) ==
    LET v   == Strip(value)
        iso == RStripZ(v)
    IN  IF IsDigitString(v) /\ Len(v) = 10 THEN strptime(v, FmtDigits10)
        ELSE IF IsDigitString(v) /\ Len(v) = 12 THEN strptime(v, FmtDigits12)
        ELSE TryFormats(iso, <<FmtIsoT, FmtIsoSpace, FmtIsoTMin, FmtIsoSpaceMin>>, 1)

\* n as w decimal digits, zero-padded (n < 10^w)
Pad(n, w) == [i \in 1..w |-> DigitChars[((n \div (10 ^ (w - i))) % 10) + 1]]

\* the key made with the minutes kept, dt.strftime("%Y%m%d%H%M")
strftime_key_WithMinutes(dt) ==
    Pad(dt["%Y"], 4) \o Pad(dt["%m"], 2) \o Pad(dt["%d"], 2) \o Pad(dt["%H"], 2)
        \o Pad(dt["%M"], 2)

\* dt.strftime("%Y%m%d%H"), for a year of four digits
strftime_key(dt) ==
    Pad(dt["%Y"], 4) \o Pad(dt["%m"], 2) \o Pad(dt["%d"], 2) \o Pad(dt["%H"], 2)

\* Inputs of the parser: a date and hour written as digits or ISO-like, with
\* or without padding, minutes, trailing 'Z's and spaces around

InMonths  == {2, 8, 13}
InDays    == {1, 30}
InHours   == {0, 7, 24}

\* n in decimal, at least w digits
Num(n, w) == IF w = 1 /\ n < 10 THEN <<DigitChars[n + 1]>> ELSE Pad(n, 2)

DigitTails == {<<>>, <<"3", "0">>, <<"3">>, <<"3", "0", "0">>}

DigitBodies ==
    {Pad(2017, 4) \o Pad(m, 2) \o Pad(d, 2) \o Pad(h, 2) \o t :
        m \in InMonths, d \in InDays, h \in InHours, t \in DigitTails}
    \cup {Pad(2017, 4) \o Pad(8, 2) \o Pad(1, 2)}

IsoSeparators == {<<"T">>, <<"t">>, <<" ">>, <<"_">>}

IsoMinutes == {<<>>, <<":", "3", "0">>, <<":", "6", "0">>}

IsoBodies ==
    {Pad(2017, 4) \o <<"-">> \o Num(m, w) \o <<"-">> \o Num(d, w) \o sep
            \o Num(h, w) \o mins :
        m \in InMonths, d \in InDays, h \in InHours, w \in {1, 2},
        sep \in IsoSeparators, mins \in IsoMinutes}

Zs(n) == [i \in 1..n |-> "Z"]

Padding == {<<>>, <<" ">>}

DateHourInputs ==
    {lead \o body \o Zs(n) \o trail :
        lead \in Padding, body \in DigitBodies \cup IsoBodies, n \in 0..MaxZ,
        trail \in Padding}

ParseInit ==
    /\ NormIdle
    /\ EncIdle
    /\ SrvIdle
    /\ ColocIdle
    /\ GphIdle
    /\ dhValue \in DateHourInputs
    /\ dhPc = "start"
    /\ dhResult = <<>>
    /\ dhStatus = 0
    /\ dhTs = <<>>

\* gph line 269, uv line 343: dt = parse_datehour(datehour)
ParseDatehour ==
    /\ dhPc = "start"
    /\ dhResult' = parse_datehour(dhValue)
    /\ dhPc' = "parsed"
    /\ UNCHANGED <<dhValue, dhStatus, dhTs, coVars, gphVars, normVars, encVars, srvVars>>

\* gph lines 270-274, uv lines 344-347: abort(400) on ValueError, before the
\* route looks at any file; otherwise ts = dt.strftime("%Y%m%d%H")
RouteKey ==
    /\ dhPc = "parsed"
    /\ IF dhResult.err
       THEN dhStatus' = 400 /\ UNCHANGED dhTs
       ELSE dhTs' = strftime_key(dhResult.dt) /\ UNCHANGED dhStatus
    /\ dhPc' = "done"
    /\ UNCHANGED <<dhValue, dhResult, coVars, gphVars, normVars, encVars, srvVars>>

ParseNext == ParseDatehour \/ RouteKey

SpecParse == ParseInit /\ [][ParseNext]_vars

----------------------------------------------------------------------------
\* TileStore and the routes /gph/<datehour>, /uv/<datehour>, /landMask
\*
\* A request thread runs its handler statement by statement and keeps the
\* response it sent; threads interleave between statements (the server is
\* threaded).  An image file is
\* a sequence of pieces; piece i of the image of path p is <<p, i>>.  A
\* handler receives the outcome of parse_datehour: an hour, or ValueError.

Threads == 1..NumThreads

Hours == {"2017080100"}

Routes == {"gph", "uv", "landMask"}

\* the routes that have a source dataset: data/data.grib (resolve_data_path)
\* for gph, data/lsm.grib (resolve_lsm_path) for landMask; uv has none
SourceRoutes == {"gph", "landMask"}

\* image_path: gph_<ts>.png, uv_<ts>.png, landMask.png
ImagePath(route, ts) == IF route = "landMask" THEN <<"landMask", "">> ELSE <<route, ts>>

Paths == {ImagePath(r, h) : r \in Routes, h \in Hours}

Hole == <<<<"", "">>, 0>>

\* the complete image of a path
Tile(p) == [i \in 1..TileChunks |-> <<p, i>>]

Absent == [exists |-> FALSE, data |-> <<>>]

\* os.path.exists(image_path)
Exists(p) == files[p].exists

\* a write of one piece at offset k of a file (a gap before it reads as zeros)
WriteAt(data, k, piece) ==
    [i \in 1..(IF Len(data) > k THEN Len(data) ELSE k) |->
        IF i = k THEN piece ELSE IF i <= Len(data) THEN data[i] ELSE Hole]

\* lat = np.arange(90, -90.0001, -0.25), lon = np.arange(0, 360, 0.25) of
\* create_app, the global grid the hit paths take bounds and size from, here
\* with a step of 45 degrees instead of 0.25
ServerLat == Axis(90, -45, 5)
ServerLon == Axis(0, 45, 8)

\* the grids data/lsm.grib can have: the server's grid, a coarser global grid
\* with ascending latitudes, and a regional grid
LsmGrids ==
    {[lat |-> ServerLat, lon |-> ServerLon],
     [lat |-> Axis(-90, 90, 3), lon |-> Axis(0, 90, 4)],
     [lat |-> Axis(60, -10, 4), lon |-> Axis(-30, 10, 6)]}

\* str(n) for n >= 0
RECURSIVE Decimal(_)
Decimal(n) ==
    IF n < 10 THEN <<DigitChars[n + 1]>>
    ELSE Decimal(n \div 10) \o <<DigitChars[(n % 10) + 1]>>

\* the size written height first, f"{ny}x{nx}"
XSize_HeightFirst(nx, ny) == Decimal(ny) \o <<"x">> \o Decimal(nx)

\* resp.headers["X-Size"] = f"{nx}x{ny}"
XSize(nx, ny) == Decimal(nx) \o <<"x">> \o Decimal(ny)

\* resp.headers["X-Bounds"] = ",".join(map(str, bounds)): the four numbers in
\* the order of the tuple
XBounds(bounds) == bounds

\* bounds and size of the hit paths (gph 281-292, uv 355-368, land_mask
\* 390-402): the server's axes, rewrapped with a stub field and oriented
HitMetadata ==
    LET elev_stub == [r \in 1..Len(ServerLat) |-> [c \in 1..Len(ServerLon) |-> 0]]
        lon_f     == to_minus180_180(ServerLon, elev_stub).lon
        lat_w     == IF LatAscending(ServerLat) THEN Reverse(ServerLat) ELSE ServerLat
    IN  [bounds |-> Bounds(lat_w, lon_f), nx |-> Len(lon_f), ny |-> Len(lat_w)]

\* bounds and size of a rendered land mask (land_mask 419-436): the axes of
\* the dataset, rewrapped with the mask and oriented, and the mask's shape
RenderMetadata(grid) ==
    LET mask    == Field(Len(grid.lat), Len(grid.lon))
        rew     == to_minus180_180(grid.lon, mask)
        flipped == FlipLat(grid.lat, rew.elev)
    IN  [bounds |-> Bounds(flipped.lat, rew.lon),
         nx     |-> Len(flipped.elev[1]),
         ny     |-> Len(flipped.elev)]

NoRequest ==
    [route |-> "", dt |-> "", ts |-> "", pc |-> "idle", missed |-> FALSE,
     png |-> <<>>, meta |-> [bounds |-> <<>>, nx |-> 0, ny |-> 0], off |-> 0, status |-> 0, body |-> <<>>,
     xbounds |-> <<>>, xsize |-> <<>>]

SrvInit ==
    /\ NormIdle
    /\ EncIdle
    /\ ParseIdle
    /\ ColocIdle
    /\ GphIdle
    /\ \E present \in SUBSET Paths :
          files = [p \in Paths |->
                      IF p \in present THEN [exists |-> TRUE, data |-> Tile(p)]
                      ELSE Absent]
    /\ sources \in SUBSET SourceRoutes
    /\ lsmGrid \in IF "landMask" \in sources THEN LsmGrids ELSE {<<>>}
    /\ req = [t \in Threads |-> NoRequest]

Respond(t, status, body) ==
    req' = [req EXCEPT ![t].pc = "done", ![t].status = status, ![t].body = body]

\* a 200 response with the X-Bounds and X-Size headers
RespondTile(t, body, meta) ==
    req' = [req EXCEPT ![t].pc = "done", ![t].status = 200, ![t].body = body,
                       ![t].xbounds = XBounds(meta.bounds),
                       ![t].xsize = XSize(meta.nx, meta.ny)]

\* the server hands a request to a new thread
Receive(t, route, dt) ==
    /\ req[t].pc = "idle"
    /\ req' = [req EXCEPT ![t] =
                  [NoRequest EXCEPT !.route = route,
                                    !.dt = IF route = "landMask" THEN "" ELSE dt,
                                    !.pc = IF route = "landMask" THEN "check" ELSE "parse"]]
    /\ UNCHANGED <<files, sources, lsmGrid, normVars, encVars, auxVars>>

\* gph, uv: dt = parse_datehour(datehour), abort(400) on ValueError;
\*          ts = dt.strftime("%Y%m%d%H")
Parse(t) ==
    /\ req[t].pc = "parse"
    /\ IF req[t].dt = ValueError
       THEN Respond(t, 400, <<>>)
       ELSE req' = [req EXCEPT ![t].ts = req[t].dt, ![t].pc = "check"]
    /\ UNCHANGED <<files, sources, lsmGrid, normVars, encVars, auxVars>>

\* os.path.exists(image_path): gph line 278, uv line 351, land_mask line 389
Check(t) ==
    /\ req[t].pc = "check"
    /\ LET p == ImagePath(req[t].route, req[t].ts) IN
         IF Exists(p)
         THEN req' = [req EXCEPT ![t].pc = "hit"]
         ELSE IF req[t].route = "uv"
         THEN req' = [req EXCEPT ![t].pc = "done", ![t].missed = TRUE,
                                 ![t].status = 404]
         ELSE req' = [req EXCEPT ![t].missed = TRUE,
                                 ![t].pc = IF req[t].route = "gph"
                                           THEN "select" ELSE "open_source"]
    /\ UNCHANGED <<files, sources, lsmGrid, normVars, encVars, auxVars>>

\* the hit path: bounds and size from the server's axes, then
\* with open(image_path, "rb") as f: data = f.read(); Response(data)
HitRead(t) ==
    /\ req[t].pc = "hit"
    /\ RespondTile(t, files[ImagePath(req[t].route, req[t].ts)].data, HitMetadata)
    /\ UNCHANGED <<files, sources, lsmGrid, normVars, encVars, auxVars>>

\* gph lines 303-307: z500_da and time_coord are bound nowhere (their
\* assignments in create_app are commented out), so the selection raises
\* NameError, which "except Exception" turns into abort(404), whether or not
\* data/data.grib is there.  Lines 309-334 are never reached.
GphSelect(t) ==
    /\ req[t].pc = "select"
    /\ Respond(t, 404, <<>>)
    /\ UNCHANGED <<files, sources, lsmGrid, normVars, encVars, auxVars>>

\* land_mask lines 413-417: open data/lsm.grib, abort(500) when that fails
LmOpenSource(t) ==
    /\ req[t].pc = "open_source"
    /\ IF "landMask" \in sources
       THEN req' = [req EXCEPT ![t].pc = "render"]
       ELSE Respond(t, 500, <<>>)
    /\ UNCHANGED <<files, sources, lsmGrid, normVars, encVars, auxVars>>

\* land_mask lines 419-436: threshold, rewrap, flip, encode_landmask_png
LmRender(t) ==
    /\ req[t].pc = "render"
    /\ req' = [req EXCEPT ![t].png = Tile(ImagePath("landMask", "")),
                          ![t].meta = RenderMetadata(lsmGrid),
                          ![t].pc = "open_write"]
    /\ UNCHANGED <<files, sources, lsmGrid, normVars, encVars, auxVars>>

\* land_mask line 438: open(image_path, "wb") creates or truncates the file
LmOpenWrite(t) ==
    /\ req[t].pc = "open_write"
    /\ files' = [files EXCEPT ![ImagePath("landMask", "")] =
                    [exists |-> TRUE, data |-> <<>>]]
    /\ req' = [req EXCEPT ![t].off = 0, ![t].pc = "write"]
    /\ UNCHANGED <<sources, lsmGrid, normVars, encVars, auxVars>>

\* land_mask line 439: f.write(png), piece by piece at the handle's offset;
\* the file is closed after the last piece
LmWrite(t) ==
    /\ req[t].pc = "write"
    /\ LET p == ImagePath("landMask", "")
           k == req[t].off + 1
       IN  /\ files' = [files EXCEPT ![p].data = WriteAt(files[p].data, k, req[t].png[k])]
           /\ req' = [req EXCEPT ![t].off = k,
                                 ![t].pc = IF k = Len(req[t].png) THEN "respond" ELSE "write"]
    /\ UNCHANGED <<sources, lsmGrid, normVars, encVars, auxVars>>

\* land_mask lines 441-444: Response(png)
LmRespond(t) ==
    /\ req[t].pc = "respond"
    /\ RespondTile(t, req[t].png, req[t].meta)
    /\ UNCHANGED <<files, sources, lsmGrid, normVars, encVars, auxVars>>

SrvNext ==
    \E t \in Threads :
        \/ \E route \in Routes, dt \in Hours \cup {ValueError} : Receive(t, route, dt)
        \/ Parse(t)
        \/ Check(t)
        \/ HitRead(t)
        \/ GphSelect(t)
        \/ LmOpenSource(t)
        \/ LmRender(t)
        \/ LmOpenWrite(t)
        \/ LmWrite(t)
        \/ LmRespond(t)

SpecServe == SrvInit /\ [][SrvNext]_vars

----------------------------------------------------------------------------
\* Properties of the normaliser

ColumnsMatch == \A r \in 1..Len(elev_m) : Len(elev_m[r]) = Len(lon)
RowsMatch    == Len(elev_m) = Len(lat)

AlreadyInRange == SeqMin(lon) >= -180 /\ SeqMax(lon) <= 180

StrictlyIncreasing(s) == \A j \in 1..(Len(s) - 1) : s[j] < s[j + 1]
StrictlyDecreasing(s) == \A j \in 1..(Len(s) - 1) : s[j] > s[j + 1]

\* C1: after to_minus180_180 on a uniformly spaced axis of at least two
\* samples that is not already inside [-180,180], every output column j holds
\* the input column whose longitude is congruent modulo 360 to the returned
\* axis value at j.
C1_ColumnsFollowLongitude ==
    (normPc = "rewrapped" /\ Len(lon) >= 2 /\ ~AlreadyInRange /\ ColumnsMatch) =>
        \A r \in 1..Len(elev_fixed) : \A j \in 1..Len(lon_fixed) :
            (lon[elev_fixed[r][j][2]] - lon_fixed[j]) % 360 = 0

\* C2: the axis returned by to_minus180_180 for any uniformly spaced axis of
\* at least two samples is strictly increasing and lies in [-180, 180).
C2_AxisIncreasingInRange ==
    (normPc = "rewrapped" /\ Len(lon) >= 2) =>
        /\ StrictlyIncreasing(lon_fixed)
        /\ \A j \in 1..Len(lon_fixed) : -180 <= lon_fixed[j] /\ lon_fixed[j] < 180

\* C3: the orientation step reverses the latitude axis and the rows exactly
\* when lat[0] < lat[-1] (output row r is input row ny-1-r) and otherwise
\* leaves both alone; for a strictly monotonic axis the result is strictly
\* decreasing and row r holds the data of latitude lat_work[r].
C3_LatitudeOrientation ==
    normPc \in {"flipped", "done"} =>
        LET rows == 1..Len(elev_fixed) IN
        /\ Len(elev_fixed) = Len(elev_m)
        /\ LatAscending(lat) =>
              /\ lat_work = Reverse(lat)
              /\ \A r \in rows : \A j \in 1..Len(elev_fixed[r]) :
                    elev_fixed[r][j][1] = Len(elev_m) + 1 - r
        /\ ~LatAscending(lat) =>
              /\ lat_work = lat
              /\ \A r \in rows : \A j \in 1..Len(elev_fixed[r]) :
                    elev_fixed[r][j][1] = r
        /\ (StrictlyIncreasing(lat) \/ StrictlyDecreasing(lat)) =>
              /\ StrictlyDecreasing(lat_work)
              /\ RowsMatch =>
                    \A r \in rows : \A j \in 1..Len(elev_fixed[r]) :
                        lat[elev_fixed[r][j][1]] = lat_work[r]

\* C3 witness: an ascending axis of several latitudes has been flipped
C3_Witness ==
    /\ normPc = "flipped"
    /\ Len(lat) >= 2
    /\ LatAscending(lat)
    /\ RowsMatch
    /\ lat_work = Reverse(lat)

\* an ascending axis of at least two samples inside [-180, 180)
Canonical(s) ==
    /\ Len(s) >= 2
    /\ StrictlyIncreasing(s)
    /\ \A j \in 1..Len(s) : -180 <= s[j] /\ s[j] < 180

\* C14: when the longitude axis is ascending and already inside [-180,180),
\* to_minus180_180 does not fail and returns the axis unchanged and the field
\* unchanged, the same values in the same columns.
C14_IdentityOnCanonical ==
    Canonical(lon) =>
        /\ normPc # "error"
        /\ normPc = "rewrapped" => (lon_fixed = lon /\ elev_fixed = elev_m)

\* C14 witness: a canonical axis of three samples and its field came back
C14_Witness ==
    /\ normPc = "rewrapped"
    /\ Canonical(lon)
    /\ Len(lon) >= 3
    /\ ColumnsMatch
    /\ lon_fixed = lon
    /\ elev_fixed = elev_m

\* lon[i] = i*D with nx*D = 360 and nx even
IsStandardGrid(s) ==
    /\ Len(s) >= 2
    /\ Len(s) % 2 = 0
    /\ Len(s) * (s[2] - s[1]) = 360
    /\ \A i \in 1..Len(s) : s[i] = (i - 1) * (s[2] - s[1])

\* C15: for an axis lon[i] = i*D with nx*D = 360 and nx even,
\* to_minus180_180 returns an axis that starts at -180, ends at 180-D and is
\* strictly increasing, and the input column of longitude 0 is at the output
\* column index nx/2, the computed shift.
C15_StandardGrid ==
    (normPc = "rewrapped" /\ IsStandardGrid(lon) /\ ColumnsMatch) =>
        LET nx == Len(lon)
            D  == lon[2] - lon[1]
        IN  /\ lon_fixed[1] = -180
            /\ lon_fixed[nx] = 180 - D
            /\ StrictlyIncreasing(lon_fixed)
            /\ RoundHalfEven(-180 - lon[1], D) % nx = nx \div 2
            /\ \A r \in 1..Len(elev_fixed) : elev_fixed[r][(nx \div 2) + 1][2] = 1

Min2(a, b) == IF a <= b THEN a ELSE b
Max2(a, b) == IF a >= b THEN a ELSE b

\* C20: the bounds of a tile are <<minLon, minLat, maxLon, maxLat>> with
\* minLon = min(lon[0], lon[-1]), maxLon = max(lon[0], lon[-1]) and likewise
\* for latitude, so minLon <= maxLon and minLat <= maxLat, and reversing
\* either axis leaves the bounds as they are.
C20_BoundsInvariant ==
    normPc = "done" =>
        LET b  == tile.bounds
            lo == lon_fixed
            la == lat_work
        IN  /\ b[1] <= b[3]
            /\ b[2] <= b[4]
            /\ b[1] = Min2(lo[1], lo[Len(lo)])
            /\ b[3] = Max2(lo[1], lo[Len(lo)])
            /\ b[2] = Min2(la[1], la[Len(la)])
            /\ b[4] = Max2(la[1], la[Len(la)])
            /\ Bounds(Reverse(la), lo) = b
            /\ Bounds(la, Reverse(lo)) = b
            /\ Bounds(Reverse(la), Reverse(lo)) = b

\* C20 witness: a tile was made of a descending longitude axis and a
\* descending latitude axis
C20_Witness ==
    /\ normPc = "done"
    /\ lon_fixed[1] > lon_fixed[Len(lon_fixed)]
    /\ lat_work[1] > lat_work[Len(lat_work)]
    /\ tile.bounds = <<lon_fixed[Len(lon_fixed)], lat_work[Len(lat_work)],
                       lon_fixed[1], lat_work[1]>>

\* C21: the size reported with a tile is (length of the normalised longitude
\* axis, length of the normalised latitude axis), and neither the rewrap nor
\* the flip changes the number of columns or rows of the field or the length
\* of an axis.
C21_SizeEqualsAxisLengths ==
    /\ normPc \in {"rewrapped", "flipped", "done"} =>
          /\ Len(lon_fixed) = Len(lon)
          /\ Len(elev_fixed) = Len(elev_m)
          /\ \A r \in 1..Len(elev_fixed) : Len(elev_fixed[r]) = Len(elev_m[1])
    /\ normPc \in {"flipped", "done"} => Len(lat_work) = Len(lat)
    /\ normPc = "done" =>
          /\ tile.nx = Len(lon_fixed)
          /\ tile.ny = Len(lat_work)

\* C27: the copies of to_minus180_180 behave alike on every axis and field,
\* an axis of fewer than two samples included: the copy of backend/app.py
\* (the one Rewrap runs) fails exactly when the copy of preprocess_uvz.py
\* fails, and otherwise returns the same axis and the same field.
C27_CopiesAgree ==
    LET other == to_minus180_180_guarded(lon, elev_m) IN
      /\ normPc = "error" => other.err
      /\ normPc = "rewrapped" =>
            /\ ~other.err
            /\ lon_fixed = other.lon
            /\ elev_fixed = other.elev

\* C9: when the field's column count differs from the longitude axis length
\* or its row count from the latitude axis length, the pipeline ends in an
\* error and returns no axis, image or bounds.
C9_ShapeMismatchFails ==
    (~ColumnsMatch \/ ~RowsMatch) => normPc \in {"start", "error"}

----------------------------------------------------------------------------
\* Properties of the encoders

\* value_m = (R<<16 | G<<8 | B) * 0.1 - 10000.0, in hundredths of a metre
TerrainDecode(px) == (px[1] * 65536 + px[2] * 256 + px[3]) * 10 - 1000000

RoundedByte(x, vmin, vmax) ==
    IF x <= vmin THEN 0
    ELSE IF x >= vmax THEN 255
    ELSE RoundHalfEven((x - vmin) * 255, vmax - vmin)

ProperRange == IsFinite(encArgs.vmin) /\ IsFinite(encArgs.vmax)
                  /\ encArgs.vmax.v > encArgs.vmin.v

\* C5: for vmax > vmin, scale_fixed_range gives every finite value the byte
\* round(clip((value - vmin)/(vmax - vmin), 0, 1) * 255), the nearest byte.
C5_ScalerRounds ==
    (encOp = "scale" /\ encPc = "done" /\ ProperRange) =>
        \A i \in DOMAIN encArgs.a :
            IsFinite(encArgs.a[i]) =>
                encOut[i] = RoundedByte(encArgs.a[i].v, encArgs.vmin.v, encArgs.vmax.v)

\* C6: for vmax > vmin, scale_fixed_range maps vmin to 0, vmax to 255, every
\* non-finite cell to 0, values below vmin to 0, values above vmax to 255, and
\* is non-decreasing over [vmin, vmax].
C6_ScalerBoundaries ==
    (encOp = "scale" /\ encPc = "done" /\ ProperRange) =>
        LET a == encArgs.a
            lo == encArgs.vmin.v
            hi == encArgs.vmax.v
        IN  /\ \A i \in DOMAIN a :
                /\ encOut[i] \in 0..255
                /\ ~IsFinite(a[i]) => encOut[i] = 0
                /\ (IsFinite(a[i]) /\ a[i].v <= lo) => encOut[i] = 0
                /\ (IsFinite(a[i]) /\ a[i].v >= hi) => encOut[i] = 255
            /\ \A i, j \in DOMAIN a :
                (/\ IsFinite(a[i]) /\ IsFinite(a[j])
                 /\ lo <= a[i].v /\ a[i].v <= a[j].v /\ a[j].v <= hi)
                    => encOut[i] <= encOut[j]

\* C6 witness: an array holding vmax and +inf has been scaled to 255 and 0
C6_Witness ==
    /\ encOp = "scale"
    /\ encPc = "done"
    /\ ProperRange
    /\ encArgs.a[1] = encArgs.vmax
    /\ encArgs.a[2] = PosInf
    /\ encOut[1] = 255
    /\ encOut[2] = 0

\* C16: if vmax <= vmin, or either bound is not finite, scale_fixed_range
\* does not fail and returns 0 for every cell, whatever the cells hold.
C16_DegenerateRangeZero ==
    encOp = "scale" =>
        /\ encPc # "error"
        /\ (encPc = "done" /\ ~ProperRange) =>
              /\ DOMAIN encOut = DOMAIN encArgs.a
              /\ \A i \in DOMAIN encOut : encOut[i] = 0

\* C16 witness: an empty range vmax = vmin below a finite cell and +inf
C16_Witness ==
    /\ encOp = "scale"
    /\ encPc = "done"
    /\ encArgs.vmin = encArgs.vmax
    /\ IsFinite(encArgs.vmin)
    /\ IsFinite(encArgs.a[1])
    /\ encArgs.a[1].v > encArgs.vmax.v
    /\ encArgs.a[2] = PosInf
    /\ encOut = <<0, 0>> \o [i \in 1..(Len(encOut) - 2) |-> 0]

ConstantSlice(a) ==
    \A i, j \in DOMAIN a : (IsFinite(a[i]) /\ IsFinite(a[j])) => a[i] = a[j]

\* C17: when all finite cells of the slice hold the same value, scale_to_255
\* gives 127 for every finite cell and 0 for every non-finite cell; when the
\* slice has no finite cell, every cell gives 0.
C17_ConstantSliceMidGray ==
    (encOp = "adaptive" /\ encPc = "done" /\ ConstantSlice(encArgs.a)) =>
        /\ DOMAIN encOut = DOMAIN encArgs.a
        /\ \A i \in DOMAIN encOut :
              encOut[i] = IF IsFinite(encArgs.a[i]) THEN 127 ELSE 0

\* C17 witness: a slice of one finite value and a NaN
C17_Witness ==
    /\ encOp = "adaptive"
    /\ encPc = "done"
    /\ IsFinite(encArgs.a[1])
    /\ encArgs.a[2] = NaN
    /\ ConstantSlice(encArgs.a)
    /\ encOut[1] = 127
    /\ encOut[2] = 0

\* C18: a cell is land exactly when its input value is > 0.5 (NaN and values
\* <= 0.5 are sea); the cast to float and the >= 0.5 threshold after the
\* rewrap and flip keep that classification, and the pixel is (0,0,0,255)
\* for land and (255,255,255,255) otherwise.
C18_MaskEncoding ==
    (encOp = "mask" /\ encPc = "done") =>
        LET x    == encArgs.lsm
            land == x # NaN /\ x # NegInf /\ (x = PosInf \/ x.v > 5)
        IN  /\ encOut = IF land THEN <<0, 0, 0, 255>> ELSE <<255, 255, 255, 255>>
            /\ encOut[1] = encOut[2]
            /\ encOut[2] = encOut[3]
            /\ encOut[1] \in {0, 255}

\* C18 witness: the value 0.5 itself came out as sea
C18_Witness ==
    /\ encOp = "mask"
    /\ encPc = "done"
    /\ encArgs.lsm = Fin(5)
    /\ encOut = <<255, 255, 255, 255>>

\* the byte scale_fixed_range makes of one cell for the range <<vmin, vmax>>
FixedByte(x, range) == scale_fixed_range(<<x>>, Fin(range[1]), Fin(range[2]))[1]

\* C19: every encoder gives A = 255 to every pixel; the U/V pair encoder and
\* the liquid/ice encoder give B = 0, the temperature encoder gives G = B = 0;
\* and each of R, G, B is the byte of its own input field, never of the field
\* of another channel.
C19_ChannelPacking ==
    encPc = "done" =>
        /\ encOp \in {"terrain", "mask"} => encOut[4] = 255
        /\ encOp = "uvz" =>
              encOut = <<FixedByte(encArgs.u, UV_RANGES_MPS[encArgs.pressure_level]),
                         FixedByte(encArgs.v, UV_RANGES_MPS[encArgs.pressure_level]),
                         FixedByte(encArgs.z, Z_RANGE_MPS),
                         255>>
        /\ encOp = "temp" =>
              encOut = <<FixedByte(encArgs.temp_c, TEMP_RANGES_C[encArgs.pressure_level]),
                         0, 0, 255>>
        /\ encOp = "uv" =>
              /\ DOMAIN encOut = DOMAIN encArgs.u
              /\ \A i \in DOMAIN encOut :
                    encOut[i] = <<scale_to_255(encArgs.u)[i], scale_to_255(encArgs.v)[i],
                                  0, 255>>
        /\ encOp = "liqice" =>
              encOut = <<to_u8(encArgs.tclw, LiquidMax), to_u8(encArgs.tciw, IceMax),
                         0, 255>>
        /\ encOp = "lmh" =>
              encOut = <<to_u8(encArgs.lcc, CloudMax), to_u8(encArgs.mcc, CloudMax),
                         to_u8(encArgs.hcc, CloudMax), 255>>

\* C19 witness: a pair of wind slices that differ has been packed, with red
\* and green of the first pixel different
C19_Witness ==
    /\ encOp = "uv"
    /\ encPc = "done"
    /\ encArgs.u # encArgs.v
    /\ encOut[1][1] # encOut[1][2]
    /\ encOut[1][3] = 0
    /\ encOut[1][4] = 255

\* C25: in encode_lmh_rgb_png and encode_liq_ice_png every non-finite input
\* cell, NaN as well as +inf and -inf, gives byte 0 in its channel.
C25_NonFiniteIsZero ==
    /\ (encOp = "liqice" /\ encPc = "done") =>
          /\ ~IsFinite(encArgs.tclw) => encOut[1] = 0
          /\ ~IsFinite(encArgs.tciw) => encOut[2] = 0
    /\ (encOp = "lmh" /\ encPc = "done") =>
          /\ ~IsFinite(encArgs.lcc) => encOut[1] = 0
          /\ ~IsFinite(encArgs.mcc) => encOut[2] = 0
          /\ ~IsFinite(encArgs.hcc) => encOut[3] = 0

FiniteValues(a) == {a[i].v : i \in {j \in DOMAIN a : IsFinite(a[j])}}

\* C26: for a slice with at least two distinct finite values, scale_to_255
\* returns the bytes scale_fixed_range returns with vmin and vmax set to the
\* slice's finite minimum and maximum; a cell holding the minimum gives 0 and
\* a cell holding the maximum gives 255.
C26_AdaptiveAgreesWithFixed ==
    (encOp = "adaptive" /\ encPc = "done"
        /\ Cardinality(FiniteValues(encArgs.a)) >= 2) =>
        LET lo == CHOOSE x \in FiniteValues(encArgs.a) :
                      \A y \in FiniteValues(encArgs.a) : x <= y
            hi == CHOOSE x \in FiniteValues(encArgs.a) :
                      \A y \in FiniteValues(encArgs.a) : x >= y
        IN  /\ encOut = scale_fixed_range(encArgs.a, Fin(lo), Fin(hi))
            /\ \A i \in DOMAIN encArgs.a :
                  /\ encArgs.a[i] = Fin(lo) => encOut[i] = 0
                  /\ encArgs.a[i] = Fin(hi) => encOut[i] = 255

\* C26 witness: the slice (-80, 0, 120) came out as (0, 102, 255)
C26_Witness ==
    /\ encOp = "adaptive"
    /\ encPc = "done"
    /\ encArgs.a = <<Fin(-80), Fin(0), Fin(120)>>
    /\ encOut = <<0, 102, 255>>

\* C10: encode_uvz_rgb_png and encode_temp_r_png fail for a pressure level
\* other than 850, 500, 250, before any channel is scaled and without image
\* bytes; for these three levels they never fail.
C10_UnregisteredLevelFails ==
    encOp \in {"uvz", "temp"} =>
        /\ (encArgs.pressure_level \notin {850, 500, 250} /\ encPc # "start") =>
              encPc = "error" /\ encScaled = 0 /\ encOut = <<>>
        /\ encArgs.pressure_level \in {850, 500, 250} => encPc # "error"

\* C10 witness: the wind encoder has refused level 700
C10_Witness ==
    /\ encOp = "uvz"
    /\ encPc = "error"
    /\ encArgs.pressure_level = 700
    /\ encOut = <<>>

----------------------------------------------------------------------------
\* Properties of the routes

PathOf(t) == ImagePath(req[t].route, req[t].ts)

\* C7: on every tile route, a request that misses the store while the source
\* dataset is available renders the tile, returns it and persists it under
\* the key (so that the next request for the key is a hit with these bytes).
C7_LookupBeforeCompute ==
    \A t \in Threads :
        (req[t].pc = "done" /\ req[t].missed /\ req[t].route \in sources) =>
            /\ req[t].status = 200
            /\ req[t].body = Tile(PathOf(t))
            /\ Exists(PathOf(t))

\* C8: when requests for one key run concurrently, every response body is the
\* complete tile of the key, never an empty or partly written file, and once
\* the requests are over the store holds the complete tile.
C8_SameKeyRaceSafe ==
    /\ \A t \in Threads :
          (req[t].pc = "done" /\ req[t].status = 200) =>
              req[t].body = Tile(PathOf(t))
    /\ (\A t \in Threads : req[t].pc \in {"idle", "done"}) =>
          \A p \in Paths : Exists(p) => files[p].data = Tile(p)

\* C22: on every tile route, a request whose key is not in the store while
\* the source dataset cannot be supplied ends with 404, computes no tile and
\* sends none.
C22_MissingSourceNotFound ==
    \A t \in Threads :
        (req[t].pc = "done" /\ req[t].missed /\ req[t].route \notin sources) =>
            /\ req[t].status = 404
            /\ req[t].png = <<>>
            /\ req[t].body = <<>>

\* C24: every 200 response of /gph, /uv and /landMask, on a hit as well as
\* after a render, carries X-Bounds as minLon, minLat, maxLon, maxLat in that
\* order with minLon <= maxLon and minLat <= maxLat, and X-Size as
\* "<nx>x<ny>", nx the width (the longitudes) and ny the height (the
\* latitudes) of the grid the response is computed from.
C24_ResponseMetadata ==
    \A t \in Threads :
        (req[t].pc = "done" /\ req[t].status = 200) =>
            LET lons == IF req[t].missed THEN lsmGrid.lon ELSE ServerLon
                lats == IF req[t].missed THEN lsmGrid.lat ELSE ServerLat
                b    == req[t].xbounds
            IN  /\ Len(b) = 4
                /\ b[1] <= b[3]
                /\ b[2] <= b[4]
                /\ b[2] = SeqMin(lats)
                /\ b[4] = SeqMax(lats)
                /\ \A j \in DOMAIN lons : b[1] <= Wrap180(lons[j]) /\ Wrap180(lons[j]) <= b[3]
                /\ req[t].xsize = Decimal(Len(lons)) \o <<"x">> \o Decimal(Len(lats))

\* C24 witness: a land mask rendered from the regional grid went out with
\* its bounds and size, and a hit went out with the server's
C24_Witness ==
    \E t, u \in Threads :
        /\ req[t].pc = "done"
        /\ req[t].status = 200
        /\ req[t].missed
        /\ req[t].xbounds = <<-30, 30, 20, 60>>
        /\ req[t].xsize = <<"6", "x", "4">>
        /\ req[u].pc = "done"
        /\ req[u].status = 200
        /\ ~req[u].missed
        /\ req[u].xsize = <<"8", "x", "5">>

\* C28: for every grid of the land-sea-mask dataset, the X-Bounds and X-Size
\* of a /landMask cache hit equal those of the response that rendered the
\* image.
C28_HitAndMissMetadataAgree ==
    \A t, u \in Threads :
        (/\ req[t].route = "landMask" /\ req[t].pc = "done" /\ req[t].status = 200
         /\ req[u].route = "landMask" /\ req[u].pc = "done" /\ req[u].status = 200
         /\ req[t].missed /\ ~req[u].missed) =>
            /\ req[u].xbounds = req[t].xbounds
            /\ req[u].xsize = req[t].xsize

----------------------------------------------------------------------------
\* Properties of the timestamp parser

\* the texts the grammar names: ten digits, twelve digits, or YYYY-MM-DD, a
\* 'T' or a space, HH, an optional :MM and at most one trailing 'Z'
IsoShape(s) ==
    /\ Len(s) \in {13, 16}
    /\ DigitsAt(s, 1, 4) /\ s[5] = "-" /\ DigitsAt(s, 6, 2) /\ s[8] = "-"
    /\ DigitsAt(s, 9, 2) /\ s[11] \in {"T", " "} /\ DigitsAt(s, 12, 2)
    /\ Len(s) = 16 => (s[14] = ":" /\ DigitsAt(s, 15, 2))

InGrammar(s) ==
    \/ IsDigitString(s) /\ Len(s) \in {10, 12}
    \/ IsoShape(s)
    \/ Len(s) >= 1 /\ s[Len(s)] = "Z" /\ IsoShape(SubSeq(s, 1, Len(s) - 1))

\* C11: parse_datehour accepts only 10-digit YYYYMMDDHH, 12-digit
\* YYYYMMDDHHMM, and YYYY-MM-DD followed by 'T' or a space and HH with
\* optional :MM and at most one trailing 'Z'; every other text is rejected
\* with the invalid-timestamp error, which the route reports as HTTP 400
\* without making a key.
C11_GrammarExact ==
    dhPc = "done" =>
        /\ ~InGrammar(dhValue) => (dhResult.err /\ dhStatus = 400 /\ dhTs = <<>>)
        /\ dhResult.err => (dhStatus = 400 /\ dhTs = <<>>)

SameHour(a, b) ==
    a["%Y"] = b["%Y"] /\ a["%m"] = b["%m"] /\ a["%d"] = b["%d"] /\ a["%H"] = b["%H"]

\* the times a second request can be for: those of the accepted texts that
\* have no padding and no 'Z'
KeyProbes ==
    {res.dt : res \in {r \in {parse_datehour(b) : b \in DigitBodies \cup IsoBodies} :
                          ~r.err}}

\* C23: two accepted timestamp texts address the same cache entry exactly
\* when they denote the same hour: the key is the parsed time as YYYYMMDDHH,
\* whatever the format of the text and whatever its minutes.
C23_KeyIdentityByHour ==
    (dhPc = "done" /\ ~dhResult.err) =>
        /\ Len(dhTs) = 10
        /\ \A other \in KeyProbes :
              SameHour(other, dhResult.dt) <=> strftime_key(other) = dhTs

\* C23 witness: twelve digits with minutes 30 got the key of their hour, the
\* key of the ISO text of that hour without minutes
C23_Witness ==
    /\ dhPc = "done"
    /\ dhValue = Pad(2017, 4) \o Pad(8, 2) \o Pad(1, 2) \o Pad(7, 2) \o Pad(30, 2)
    /\ dhResult.dt["%M"] = 30
    /\ dhTs = Pad(2017, 4) \o Pad(8, 2) \o Pad(1, 2) \o Pad(7, 2)
    /\ LET iso == parse_datehour(Pad(2017, 4) \o <<"-">> \o Pad(8, 2) \o <<"-">>
                                     \o Pad(1, 2) \o <<"T">> \o Pad(7, 2))
       IN  ~iso.err /\ strftime_key(iso.dt) = dhTs

----------------------------------------------------------------------------
\* Properties of co-located fields

\* C13: the column mapping of to_minus180_180 depends on the longitude axis
\* alone: the fields of one timestamp rewrapped with the same axis come back
\* with the same axis and hold, at every output column j, the data of the same
\* input column, whatever their values are.
C13_SamePermutation ==
    \A k \in 1..Len(coOut) :
        /\ ~coOut[k].err
        /\ coOut[k].lon = coOut[1].lon
        /\ Len(coOut[k].elev[1]) = Len(coLon)
        /\ \A j \in 1..Len(coLon) :
              /\ coOut[k].elev[1][j].c = coOut[1].elev[1][j].c
              /\ coOut[k].elev[1][j].v = coFields[k][1][coOut[k].elev[1][j].c].v

\* C13 witness: three fields of different values have been rewrapped off a
\* 0..360 axis, and the columns did move
C13_Witness ==
    /\ Len(coOut) = 3
    /\ Len(coLon) >= 3
    /\ coLon[1] = 0
    /\ coFields[1] # coFields[2]
    /\ coFields[2] # coFields[3]
    /\ coFields[1] # coFields[3]
    /\ coOut[1].lon # coLon
    /\ coOut[3].elev[1][1].c # 1


----------------------------------------------------------------------------
\* Properties of the batch of preprocess_gph

\* C29: preprocess_gph never overwrites.  A file that exists is not changed by
\* any step, whatever its content; when the loop passes a time whose file is
\* not there, that file (and no other) is written with the image rendered in
\* this step; and when main finishes every time of the dataset has its file.
C29_NeverOverwrites ==
    /\ [][\A ts \in DOMAIN gphFiles :
              gphFiles[ts].exists => gphFiles'[ts] = gphFiles[ts]]_vars
    /\ [][gphIdx' = gphIdx + 1 =>
              LET t == gphTimes[gphIdx] IN
                /\ ~gphFiles[GphStamp(t)].exists =>
                      gphFiles'[GphStamp(t)] = [exists |-> TRUE, data |-> <<"png", t>>]
                /\ \A ts \in DOMAIN gphFiles :
                      ts # GphStamp(t) => gphFiles'[ts] = gphFiles[ts]]_vars
    /\ [](gphPc = "done" =>
              \A i \in DOMAIN gphTimes : gphFiles[GphStamp(gphTimes[i])].exists)

\* C29 witness: main finished; the stale file of the first hour and the
\* incomplete file of the second are as they were, and the third hour, with
\* two samples, holds the image of the first of them
C29_Witness ==
    /\ gphPc = "done"
    /\ gphTimes = <<60, 120, 180, 210>>
    /\ gphFiles[1] = [exists |-> TRUE, data |-> <<"stale">>]
    /\ gphFiles[2] = [exists |-> TRUE, data |-> <<"incomplete">>]
    /\ gphFiles[3] = [exists |-> TRUE, data |-> <<"png", 180>>]

====
